---- MODULE Spec2Model ----
(***************************************************************************)
(* Model of the unreliable-datagram message layer: the reassembly queue    *)
(* (src/src/msgqueue.rs) and the sender / receiver shell                   *)
(* (src/src/network.rs).                                                   *)
(***************************************************************************)
EXTENDS Integers, Sequences, FiniteSets, TLC

\* ------------------------------------------------------------------ bounds

\* message ids offered to the queue: 1..MaxId
MaxId == 3
\* declared totals offered: 1..MaxPieces; piece indexes offered: 0..MaxPieces
MaxPieces == 2
\* payload lengths offered to the queue: 0..MaxLen
MaxLen == 1
\* capacity bounds tried: None, Some(0) .. Some(MaxCap)
MaxCap == 1
\* a scripted message is split into 1..MaxSplit fragments
MaxSplit == 3
\* payloads enqueued at the Sender: 0..MaxMsgLen bytes
MaxMsgLen == 3
\* slice sizes (datagram_length - MSG_PADDING) tried: 1..MaxSlice
MaxSlice == 2
\* replication counts tried: 1..MaxRep
MaxRep == 2
\* enqueue calls per run
MaxEnqueue == 2
\* message ids offered to a queue that assembles longer messages: 1..MaxWideId
MaxWideId == 2

\* static MSG_PADDING: u16 = 32
MSG_PADDING == 32
\* the number of values of a u16
U16 == 65536

Bytes == {0, 1}

\* ------------------------------------------------------------------ Option<T>

None == <<>>
Some(x) == <<x>>
IsSome(o) == o # <<>>
Unwrap(o) == o[1]

\* ------------------------------------------------------------------ helpers

SeqsUpTo(S, n) == UNION {[1..k -> S] : k \in 0..n}

SetMax(S) == CHOOSE m \in S : \A x \in S : x <= m

RECURSIVE SortDesc(_)
\* the keys sorted by |a, b| b.cmp(a): largest first, smallest last
SortDesc(S) ==
    IF S = {} THEN <<>>
    ELSE LET m == SetMax(S) IN <<m>> \o SortDesc(S \ {m})

\* every order in which a HashMap with these keys may be iterated
HashIter(keys) ==
    LET n == Cardinality(keys) IN
    {s \in [1..n -> keys] : \A i, j \in 1..n : i # j => s[i] # s[j]}

Remove(f, k) == [x \in DOMAIN f \ {k} |-> f[x]]
Insert(f, k, v) == [x \in DOMAIN f \cup {k} |-> IF x = k THEN v ELSE f[x]]

\* ------------------------------------------------------------------ data

\* MsgChunk(MsgId(id), PieceNum(this, out_of), bytes)
MsgChunk(id, this, out_of, bytes) ==
    [id |-> id, this |-> this, out_of |-> out_of, bytes |-> bytes]

CompleteMessage(id, bytes) == [id |-> id, bytes |-> bytes]

\* ------------------------------------------------------------------ MsgStage

add_chunk_replaces_duplicate(stage, chunk) ==
    LET size == Len(chunk.bytes) IN
    IF chunk.this \notin DOMAIN stage.pieces
    THEN [stage |-> [stage EXCEPT !.size = @ + size,
                                  !.pieces = Insert(@, chunk.this, chunk)],
          added |-> size]
    ELSE [stage |-> [stage EXCEPT !.pieces = Insert(@, chunk.this, chunk)],
          added |-> 0]

add_chunk_counts_duplicates(stage, chunk) ==
    LET size == Len(chunk.bytes) IN
    IF chunk.this \notin DOMAIN stage.pieces
    THEN [stage |-> [stage EXCEPT !.size = @ + size,
                                  !.pieces = Insert(@, chunk.this, chunk)],
          added |-> size]
    ELSE [stage |-> stage, added |-> size]

\* fn add_chunk(&mut self, chunk) -> usize: the stage afterwards and the
\* number of bytes added
add_chunk(stage, chunk) ==
    IF chunk.this \notin DOMAIN stage.pieces
    THEN LET size == Len(chunk.bytes) IN
         [stage |-> [stage EXCEPT !.size = @ + size,
                                  !.pieces = Insert(@, chunk.this, chunk)],
          added |-> size]
    ELSE [stage |-> stage, added |-> 0]

MsgStage_new(starter) ==
    add_chunk([this_id |-> starter.id,
               total_pieces |-> starter.out_of,
               pieces |-> <<>>,
               size |-> 0], starter).stage

is_ready(stage) == stage.total_pieces = Cardinality(DOMAIN stage.pieces)

RECURSIVE PushAll(_, _, _)
\* the bytes of the pieces, pushed in the order the map is iterated
PushAll(pieces, order, v) ==
    IF order = <<>> THEN v
    ELSE PushAll(pieces, Tail(order), v \o pieces[Head(order)].bytes)

\* fn merge(self) -> CompleteMessage: pieces.iter_mut() visits the HashMap in
\* an unspecified order, so every iteration order is a possible outcome
merge(stage) ==
    {CompleteMessage(stage.this_id, PushAll(stage.pieces, order, <<>>)) :
        order \in HashIter(DOMAIN stage.pieces)}

\* ------------------------------------------------------------------ MsgQueue

MsgQueue_new(max_size) ==
    [last_released |-> None,
     stages |-> <<>>,
     max_size |-> max_size,
     cur_size |-> 0]

RECURSIVE mark_published_loop(_, _, _)
mark_published_loop(self, just_published, keys) ==
    IF keys = <<>> THEN self
    ELSE LET open == Head(keys) IN
         IF just_published > open /\ open \in DOMAIN self.stages
         THEN mark_published_loop(
                  [self EXCEPT !.cur_size = @ - self.stages[open].size,
                               !.stages = Remove(@, open)],
                  just_published, Tail(keys))
         ELSE mark_published_loop(self, just_published, Tail(keys))

mark_published_keeps_older(self, just_published) ==
    [self EXCEPT !.last_released = Some(just_published)]

mark_published_no_release(self, just_published) ==
    mark_published_loop(self, just_published, SortDesc(DOMAIN self.stages))

\* fn mark_published(&mut self, just_published)
mark_published(self, just_published) ==
    mark_published_loop([self EXCEPT !.last_released = Some(just_published)],
                        just_published, SortDesc(DOMAIN self.stages))

RECURSIVE prune_loop(_, _, _, _)
\* the while loop of prune; `evicted` records the ids in the order removed
prune_loop(self, max_size, open, evicted) ==
    IF self.cur_size > max_size /\ open # <<>>
    THEN LET id == open[Len(open)] IN
         prune_loop([self EXCEPT !.cur_size = @ - self.stages[id].size,
                                 !.stages = Remove(@, id)],
                    max_size, SubSeq(open, 1, Len(open) - 1),
                    Append(evicted, id))
    ELSE [self |-> self, evicted |-> evicted]

prune_run_spares_newest(self) ==
    IF self.max_size = None THEN [self |-> self, evicted |-> <<>>]
    ELSE LET desc == SortDesc(DOMAIN self.stages) IN
         prune_loop(self, Unwrap(self.max_size),
                    IF desc = <<>> THEN desc ELSE Tail(desc), <<>>)

prune_run_newest_first(self) ==
    IF self.max_size = None THEN [self |-> self, evicted |-> <<>>]
    ELSE LET desc == SortDesc(DOMAIN self.stages) IN
         prune_loop(self, Unwrap(self.max_size),
                    [i \in 1..Len(desc) |-> desc[Len(desc) + 1 - i]], <<>>)

prune_run_one(self) ==
    IF self.max_size = None THEN [self |-> self, evicted |-> <<>>]
    ELSE LET open == SortDesc(DOMAIN self.stages) IN
         IF self.cur_size > Unwrap(self.max_size) /\ open # <<>>
         THEN LET id == open[Len(open)] IN
              [self |-> [self EXCEPT !.cur_size = @ - self.stages[id].size,
                                     !.stages = Remove(@, id)],
               evicted |-> <<id>>]
         ELSE [self |-> self, evicted |-> <<>>]

\* fn prune(&mut self), with the order of eviction
prune_run(self) ==
    IF self.max_size = None THEN [self |-> self, evicted |-> <<>>]
    ELSE prune_loop(self, Unwrap(self.max_size),
                    SortDesc(DOMAIN self.stages), <<>>)

prune(self) == prune_run(self).self

is_stale_reversed(self, id) ==
    IsSome(self.last_released) /\ id >= Unwrap(self.last_released)

is_stale_strict(self, id) ==
    IsSome(self.last_released) /\ Unwrap(self.last_released) > id

\* if let Some(last) = self.last_released { if last.0 >= id.0 { return None } }
is_stale(self, id) ==
    IsSome(self.last_released) /\ Unwrap(self.last_released) >= id

\* the rest of insert_chunk, after prune: the possible outcomes
\* [self |-> the queue afterwards, ret |-> Option<CompleteMessage>]
insert_after_prune(self, chunk) ==
    LET id == chunk.id IN
    IF is_stale(self, id)
    THEN {[self |-> self, ret |-> None]}
    ELSE IF chunk.out_of = 1
    THEN {[self |-> mark_published(self, id),
           ret |-> Some(CompleteMessage(id, chunk.bytes))]}
    ELSE IF id \in DOMAIN self.stages
    THEN LET r == add_chunk(self.stages[id], chunk)
             added == [self EXCEPT !.stages[id] = r.stage,
                                   !.cur_size = @ + r.added]
         IN  IF is_ready(r.stage)
             THEN LET removed == [added EXCEPT
                                     !.stages = Remove(@, id),
                                     !.cur_size = @ - r.stage.size]
                  IN {[self |-> mark_published(removed, id), ret |-> Some(m)] :
                         m \in merge(r.stage)}
             ELSE {[self |-> added, ret |-> None]}
    ELSE {[self |-> [self EXCEPT !.cur_size = @ + Len(chunk.bytes),
                                 !.stages = Insert(@, id, MsgStage_new(chunk))],
           ret |-> None]}

\* pub fn insert_chunk(&mut self, chunk) -> Option<CompleteMessage>
insert_chunk(self, chunk) == insert_after_prune(prune(self), chunk)

\* ------------------------------------------------------------------ inputs

Payloads == SeqsUpTo(Bytes, MaxLen)

\* the fragments offered to a queue: any id, any index (0 is outside the
\* 1-based range), any declared total, any payload
Chunks ==
    {MsgChunk(id, this, out_of, bytes) :
        id \in 1..MaxId, this \in 0..MaxPieces,
        out_of \in 1..MaxPieces, bytes \in Payloads}

Capacities == {None} \cup {Some(b) : b \in 0..MaxCap}

\* ------------------------------------------------------------------ Sender

\* to_socket_addrs: the addresses a destination resolves to, or None when
\* resolution fails
to_socket_addrs(addrs) ==
    IF addrs = "unresolvable" THEN None ELSE Some(<<addrs>>)

RECURSIVE chunks(_, _)
\* message[..].chunks(size): consecutive slices of `size` bytes, the last one
\* possibly shorter; no slice at all for an empty message
chunks(message, size) ==
    IF message = <<>> THEN <<>>
    ELSE IF Len(message) <= size THEN <<message>>
    ELSE <<SubSeq(message, 1, size)>>
             \o chunks(SubSeq(message, size + 1, Len(message)), size)

RECURSIVE Repeat(_, _)
Repeat(s, n) == IF n = 0 THEN <<>> ELSE s \o Repeat(s, n - 1)

Sender_from_socket(datagram_length, replication) ==
    [out_queue |-> <<>>,
     last_id |-> 0,
     datagram_length |-> datagram_length,
     replication |-> replication]

enqueue_entries_slice_major(self, id, message, resolved) ==
    LET size == self.datagram_length - MSG_PADDING
        num_chunks == Len(message) \div size
        slices == chunks(message, size)
        n == Len(slices)
    IN  [k \in 1..(n * self.replication) |->
            LET i == ((k - 1) \div self.replication) + 1 IN
            [chunk |-> MsgChunk(id, i, (num_chunks + 1) % U16, slices[i]),
             addrs |-> resolved]]

\* the entries one call queues: per replica, one MsgChunk per slice
enqueue_entries(self, id, message, resolved) ==
    LET size == self.datagram_length - MSG_PADDING
        num_chunks == Len(message) \div size
        slices == chunks(message, size)
        replica == [i \in 1..Len(slices) |->
                       [chunk |-> MsgChunk(id, i, (num_chunks + 1) % U16,
                                           slices[i]),
                        addrs |-> resolved]]
    IN  Repeat(replica, self.replication)

enqueue_post_increment(self, message, addrs) ==
    LET id == self.last_id
        counted == [self EXCEPT !.last_id = id + 1]
        resolved == to_socket_addrs(addrs)
    IN  IF resolved = None
        THEN [self |-> counted, ret |-> "Err"]
        ELSE [self |-> [counted EXCEPT !.out_queue =
                           @ \o enqueue_entries(self, id, message,
                                                Unwrap(resolved))],
              ret |-> "Ok"]

enqueue_resolves_first(self, message, addrs) ==
    LET id == self.last_id + 1
        resolved == to_socket_addrs(addrs)
    IN  IF resolved = None
        THEN [self |-> self, ret |-> "Err"]
        ELSE [self |-> [self EXCEPT !.last_id = id,
                                    !.out_queue =
                           @ \o enqueue_entries(self, id, message,
                                                Unwrap(resolved))],
              ret |-> "Ok"]

\* pub fn enqueue(&mut self, message, addrs) -> UnrResult<()>
enqueue(self, message, addrs) ==
    LET id == self.last_id + 1
        counted == [self EXCEPT !.last_id = id]
        resolved == to_socket_addrs(addrs)
    IN  IF resolved = None
        THEN [self |-> counted, ret |-> "Err"]
        ELSE [self |-> [counted EXCEPT !.out_queue =
                           @ \o enqueue_entries(self, id, message,
                                                Unwrap(resolved))],
              ret |-> "Ok"]

\* the size of a bincode-encoded MsgChunk: u64 id, two u16, u64 length, bytes
EncodedSize(c) == 8 + 2 + 2 + 8 + Len(c.bytes)

send_one_tests_before_pop(self) ==
    IF self.out_queue = <<>>
    THEN {[self |-> self, ret |-> <<"Ok", FALSE>>, wrote |-> None]}
    ELSE LET next == Head(self.out_queue)
             popped == [self EXCEPT !.out_queue = Tail(@)]
         IN  IF EncodedSize(next.chunk) > self.datagram_length
             THEN {[self |-> popped, ret |-> <<"Err">>, wrote |-> None]}
             ELSE {[self |-> popped, ret |-> <<"Err">>, wrote |-> None],
                   [self |-> popped,
                    ret |-> <<"Ok", self.out_queue # <<>>>>,
                    wrote |-> Some([chunk |-> next.chunk,
                                    to |-> next.addrs[1]])]}

\* pub fn send_one(&mut self) -> UnrResult<bool>: the possible outcomes; the
\* transport write succeeds or fails; the datagram goes to the first resolved
\* address
send_one(self) ==
    IF self.out_queue = <<>>
    THEN {[self |-> self, ret |-> <<"Ok", FALSE>>, wrote |-> None]}
    ELSE LET next == Head(self.out_queue)
             popped == [self EXCEPT !.out_queue = Tail(@)]
         IN  IF EncodedSize(next.chunk) > self.datagram_length
             THEN {[self |-> popped, ret |-> <<"Err">>, wrote |-> None]}
             ELSE {[self |-> popped, ret |-> <<"Err">>, wrote |-> None],
                   [self |-> popped,
                    ret |-> <<"Ok", popped.out_queue # <<>>>>,
                    wrote |-> Some([chunk |-> next.chunk,
                                    to |-> next.addrs[1]])]}

send_all_turn_ignores_error(self) ==
    {[self |-> o.self,
      wrote |-> o.wrote,
      again |-> o.ret # <<"Ok", FALSE>>,
      ret |-> o.ret[1]] : o \in send_one(self)}

\* pub fn send_all(&mut self) -> UnrResult<()>: one turn of
\* `while try!(self.send_one()) {}`; `again` says whether the loop goes
\* round once more, and `ret` is what send_all returns when it does not
send_all_turn(self) ==
    {[self |-> o.self,
      wrote |-> o.wrote,
      again |-> o.ret = <<"Ok", TRUE>>,
      ret |-> o.ret[1]] : o \in send_one(self)}

\* ------------------------------------------------------------------ Receiver

Receiver_from_socket(datagram_length) ==
    [queue |-> <<>>, datagram_length |-> datagram_length]

poll_turn_one_queue(self, from, c) ==
    LET q == IF "any" \in DOMAIN self.queue
             THEN self.queue["any"] ELSE MsgQueue_new(None)
    IN  {[self |-> [self EXCEPT !.queue = Insert(@, "any", out.self)],
          ret |-> IF IsSome(out.ret)
                  THEN Some(<<from, Unwrap(out.ret)>>) ELSE None] :
            out \in insert_chunk(q, c)}

\* one turn of the loop of poll() on a datagram carrying `c` from `from`:
\* the possible outcomes [self, ret]; ret is Some(<<from, completed>>) when
\* poll returns and None when it loops. A queue created here is given no
\* capacity bound (MsgQueue::new() is called without one).
poll_turn(self, from, c) ==
    LET q == IF from \in DOMAIN self.queue
             THEN self.queue[from] ELSE MsgQueue_new(None)
    IN  {[self |-> [self EXCEPT !.queue = Insert(@, from, out.self)],
          ret |-> IF IsSome(out.ret)
                  THEN Some(<<from, Unwrap(out.ret)>>) ELSE None] :
            out \in insert_chunk(q, c)}

\* bincode::decode(data): the fragment a datagram carries, or None when the
\* bytes are not an encoded MsgChunk
decode(data) == IF data[1] = "frag" THEN Some(data[2]) ELSE None

\* pub fn poll(&mut self): one pass of the loop body on the datagram `data`
\* read from `from`. ret is <<"Err">> when poll returns the decode error,
\* <<"Ok", from, completed>> when it returns a message and <<"Loop">> when
\* it goes on to read the next datagram
poll_read(self, from, data) ==
    LET decoded == decode(data) IN
    IF decoded = None
    THEN {[self |-> self, ret |-> <<"Err">>]}
    ELSE {[self |-> out.self,
           ret |-> IF IsSome(out.ret)
                   THEN <<"Ok", from, Unwrap(out.ret)[2]>>
                   ELSE <<"Loop">>] :
             out \in poll_turn(self, from, Unwrap(decoded))}

\* ------------------------------------------------------------------ state

VARIABLES
    queue,      \* the MsgQueue under test
    chunk,      \* the argument of the last insert_chunk call (None before)
    result,     \* what the last insert_chunk call returned
    evicted,    \* ids evicted by the prune step of the last call, in order
    dropped,    \* ids of the buffers the last call removed as superseded
    returned,   \* ids of all CompleteMessages returned so far, in order
    watch,      \* a fragment identity <<id, index>> followed through the run
    fate,       \* what has happened to buffers holding the watched fragment
    feed,       \* a scripted run: the fragments to insert, in order
    fed,        \* how many fragments of feed have been inserted
    sender,     \* the Sender
    receiver,   \* the Receiver
    wire,       \* the datagrams written to the transport so far
    delivered,  \* the datagrams the Receiver has read at least once
    polled,     \* what poll() has returned so far, in order
    enqueued,   \* the successful enqueue calls so far: [id, message, addrs]
    queued,     \* every entry ever appended to out_queue: [chunk, to]
    send_ret,   \* what the last send_one call returned (None before)
    pc,         \* where the Sender's caller is: "idle" or inside "send_all"
    op,         \* the Sender operation called last (None before)
    enq_ret,    \* what the last enqueue call returned (None before)
    wrote,      \* the datagram the last send_one call wrote (None if none)
    all_from,   \* the out_queue when the last send_all call began
    all_wrote,  \* the datagrams the last send_all call has written, in order
    all_ret,    \* what the last send_all call returned (None while running)
    rx_from,    \* the source address of the datagram poll read last
    poll_ret    \* the outcome of the last turn of poll (None before)

qvars == <<queue, chunk, result, evicted, dropped, returned, watch, fate>>
pvars == <<feed, fed>>
nvars == <<sender, receiver, wire, delivered, polled, enqueued, queued,
           send_ret>>
svars == <<pc, op, enq_ret, wrote, all_from, all_wrote, all_ret>>
rvars == <<rx_from, poll_ret>>
vars == <<qvars, pvars, nvars, svars, rvars>>

\* the buffers that are present after the prune step of a call and gone when
\* the call returns, other than the buffer of the message being inserted
Superseded(pruned, after, c) ==
    {id \in DOMAIN pruned.stages : id \notin DOMAIN after.stages /\ id # c.id}

\* what the call that inserts c into q, with outcome out, does to the buffers
\* that hold the watched fragment w = <<id, index>>
Fates(q, c, out, w) ==
    LET run == prune_run(q)
        ev == {run.evicted[i] : i \in 1..Len(run.evicted)}
        sup == Superseded(run.self, out.self, c)
        held(id) == id \in DOMAIN q.stages /\ w[2] \in DOMAIN q.stages[id].pieces
    IN  (IF w[1] \in ev /\ held(w[1]) THEN {"evicted"} ELSE {})
        \cup (IF w[1] \in sup /\ held(w[1]) THEN {"superseded"} ELSE {})
        \cup (IF /\ IsSome(out.ret)
                 /\ w[1] = c.id
                 /\ \/ w[2] = c.this
                    \/ /\ c.out_of # 1
                       /\ w[1] \in DOMAIN run.self.stages
                       /\ w[2] \in DOMAIN run.self.stages[w[1]].pieces
              THEN {"completed"} ELSE {})

\* one call of insert_chunk(c) on `queue`, with its bookkeeping
Call(c) ==
    \E out \in insert_chunk(queue, c) :
        /\ queue' = out.self
        /\ chunk' = Some(c)
        /\ result' = out.ret
        /\ evicted' = prune_run(queue).evicted
        /\ dropped' = Superseded(prune(queue), out.self, c)
        /\ returned' = IF IsSome(out.ret)
                       THEN Append(returned, Unwrap(out.ret).id)
                       ELSE returned
        /\ fate' = IF IsSome(watch)
                   THEN fate \cup Fates(queue, c, out, Unwrap(watch))
                   ELSE fate
        /\ UNCHANGED watch

InitQueue ==
    /\ chunk = None
    /\ result = None
    /\ evicted = <<>>
    /\ dropped = {}
    /\ returned = <<>>
    /\ fate = {}

InitFeed ==
    /\ feed = <<>>
    /\ fed = 0

InitNet ==
    /\ receiver = Receiver_from_socket(MSG_PADDING + MaxSlice)
    /\ wire = {}
    /\ delivered = {}
    /\ polled = <<>>
    /\ enqueued = <<>>
    /\ queued = {}
    /\ send_ret = None
    /\ pc = "idle"
    /\ op = None
    /\ enq_ret = None
    /\ wrote = None
    /\ all_from = <<>>
    /\ all_wrote = <<>>
    /\ all_ret = None
    /\ rx_from = None
    /\ poll_ret = None

InitIdleNet ==
    /\ sender = Sender_from_socket(MSG_PADDING + MaxSlice, 1)
    /\ InitNet

Init ==
    /\ queue \in {MsgQueue_new(m) : m \in Capacities}
    /\ InitQueue
    /\ watch = None
    /\ InitFeed
    /\ InitIdleNet

InsertChunk ==
    /\ \E c \in Chunks : Call(c)
    /\ UNCHANGED <<pvars, nvars, svars, rvars>>

Next == InsertChunk

\* a MsgQueue fed arbitrary fragments
Spec == Init /\ [][Next]_vars

\* the fragments whose payload bytes are all 0: byte values play no part in
\* staleness, completion or size accounting
ZeroChunks == {c \in Chunks : \A i \in 1..Len(c.bytes) : c.bytes[i] = 0}

InitWatch ==
    /\ queue \in {MsgQueue_new(m) : m \in Capacities}
    /\ InitQueue
    /\ watch \in {Some(<<id, this>>) : id \in 1..MaxId, this \in 1..MaxPieces}
    /\ InitFeed
    /\ InitIdleNet

InsertWatched ==
    /\ \E c \in ZeroChunks : Call(c)
    /\ UNCHANGED <<pvars, nvars, svars, rvars>>

NextWatch == InsertWatched

\* the same queue, with one fragment identity followed through the run
SpecWatch == InitWatch /\ [][NextWatch]_vars

\* fragments of messages declared to have up to MaxSplit pieces, with any
\* index from 1 and a payload of zero bytes
WideChunks ==
    {MsgChunk(id, this, out_of, bytes) :
        id \in 1..MaxWideId, this \in 1..MaxSplit, out_of \in 1..MaxSplit,
        bytes \in {b \in Payloads : \A i \in 1..Len(b) : b[i] = 0}}

InsertWide ==
    /\ \E c \in WideChunks : Call(c)
    /\ UNCHANGED <<pvars, nvars, svars, rvars>>

NextWide == InsertWide

\* a MsgQueue whose buffers can hold several fragments
SpecWide == Init /\ [][NextWide]_vars

\* the complete fragment sets of one message split into k pieces, in every
\* order of arrival
Arrivals ==
    UNION {
        {[i \in 1..k |-> MsgChunk(id, order[i], k, payload[order[i]])] :
            id \in 1..MaxId, order \in HashIter(1..k),
            payload \in [1..k -> Payloads]} :
        k \in 1..MaxSplit}

InitPerm ==
    /\ queue = MsgQueue_new(None)
    /\ InitQueue
    /\ watch = None
    /\ feed \in Arrivals
    /\ fed = 0
    /\ InitIdleNet

InsertFed ==
    /\ fed < Len(feed)
    /\ Call(feed[fed + 1])
    /\ fed' = fed + 1
    /\ UNCHANGED <<feed, nvars, svars, rvars>>

NextPerm == InsertFed

\* a fresh unbounded queue fed one complete message, in some order
SpecPerm == InitPerm /\ [][NextPerm]_vars

Messages == SeqsUpTo(Bytes, MaxMsgLen)

\* destination descriptors: the Receiver's address, another host, and one
\* that does not resolve
Dests == {"rx", "elsewhere", "unresolvable"}

\* the address the Sender's socket is bound to
TxAddr == "tx"

InitSend ==
    /\ queue = MsgQueue_new(None)
    /\ InitQueue
    /\ watch = None
    /\ InitFeed
    /\ sender \in {Sender_from_socket(MSG_PADDING + size, r) :
                      size \in 1..MaxSlice, r \in 1..MaxRep}
    /\ InitNet

Enqueue ==
    /\ sender.last_id < MaxEnqueue
    /\ \E message \in Messages, addrs \in Dests :
           LET out == enqueue(sender, message, addrs)
               new == SubSeq(out.self.out_queue, Len(sender.out_queue) + 1,
                             Len(out.self.out_queue))
           IN  /\ sender' = out.self
               /\ enqueued' = IF out.ret = "Ok"
                              THEN Append(enqueued,
                                          [id |-> out.self.last_id,
                                           message |-> message,
                                           addrs |-> addrs])
                              ELSE enqueued
               /\ queued' = queued \cup
                              {[chunk |-> new[i].chunk, to |-> new[i].addrs[1]] :
                                  i \in 1..Len(new)}
    /\ UNCHANGED <<qvars, pvars, receiver, wire, delivered, polled, send_ret,
                   svars, rvars>>

SendOne ==
    /\ \E out \in send_one(sender) :
           /\ sender' = out.self
           /\ send_ret' = Some(out.ret)
           /\ wire' = IF IsSome(out.wrote)
                      THEN wire \cup {Unwrap(out.wrote)} ELSE wire
    /\ UNCHANGED <<qvars, pvars, receiver, delivered, polled, enqueued, queued,
                   svars, rvars>>

\* one turn of poll(): the transport hands over any datagram written to the
\* Receiver's address, in any order and any number of times
PollTurn ==
    /\ \E d \in wire :
           /\ d.to = "rx"
           /\ \E out \in poll_turn(receiver, TxAddr, d.chunk) :
                  /\ receiver' = out.self
                  /\ polled' = IF IsSome(out.ret)
                               THEN Append(polled, Unwrap(out.ret))
                               ELSE polled
           /\ delivered' = delivered \cup {d}
    /\ UNCHANGED <<qvars, pvars, sender, wire, enqueued, queued, send_ret,
                   svars, rvars>>

NextSend ==
    \/ Enqueue
    \/ SendOne
    \/ PollTurn

\* a Sender, the transport and a Receiver
SpecSend == InitSend /\ [][NextSend]_vars

\* the addresses datagrams arrive from
Sources == {"a", "b"}

\* the datagrams read: a fragment with an index from 1 and a payload of one
\* byte (neither plays a part in which queue a fragment goes to), or bytes
\* that do not decode
Inbound ==
    {<<"frag", c>> : c \in {x \in Chunks : x.bytes = <<0>> /\ x.this >= 1}}
        \cup {<<"junk">>}

\* poll reads one datagram
PollRead ==
    /\ \E from \in Sources, data \in Inbound :
           \E out \in poll_read(receiver, from, data) :
               /\ receiver' = out.self
               /\ rx_from' = Some(from)
               /\ chunk' = decode(data)
               /\ poll_ret' = Some(out.ret)
    /\ UNCHANGED <<queue, result, evicted, dropped, returned, watch, fate,
                   pvars, sender, wire, delivered, polled, enqueued, queued,
                   send_ret, svars>>

InitPoll ==
    /\ queue = MsgQueue_new(None)
    /\ InitQueue
    /\ watch = None
    /\ InitFeed
    /\ InitIdleNet

NextPoll == PollRead

\* a Receiver reading datagrams from several peers
SpecPoll == InitPoll /\ [][NextPoll]_vars

\* the datagram send_to writes for an out_queue entry: its fragment, to the
\* first resolved address
Datagram(e) == [chunk |-> e.chunk, to |-> e.addrs[1]]

\* a call of enqueue by the Sender's owner, between other calls
EnqueueCall ==
    /\ pc = "idle"
    /\ sender.last_id < MaxEnqueue
    /\ \E message \in Messages, addrs \in Dests :
           LET out == enqueue(sender, message, addrs) IN
           /\ sender' = out.self
           /\ enq_ret' = Some(out.ret)
           /\ enqueued' = IF out.ret = "Ok"
                          THEN Append(enqueued,
                                      [id |-> out.self.last_id,
                                       message |-> message,
                                       addrs |-> addrs])
                          ELSE enqueued
    /\ op' = Some("enqueue")
    /\ UNCHANGED <<qvars, pvars, rvars, receiver, wire, delivered, polled,
                   queued, send_ret, pc, wrote, all_from, all_wrote, all_ret>>

\* a call of send_one by the Sender's owner
SendOneCall ==
    /\ pc = "idle"
    /\ \E out \in send_one(sender) :
           /\ sender' = out.self
           /\ send_ret' = Some(out.ret)
           /\ wrote' = out.wrote
    /\ op' = Some("send_one")
    /\ UNCHANGED <<qvars, pvars, rvars, receiver, wire, delivered, polled,
                   enqueued, queued, pc, enq_ret, all_from, all_wrote,
                   all_ret>>

\* send_all is entered
SendAllBegin ==
    /\ pc = "idle"
    /\ pc' = "send_all"
    /\ op' = Some("send_all")
    /\ all_from' = sender.out_queue
    /\ all_wrote' = <<>>
    /\ all_ret' = None
    /\ UNCHANGED <<qvars, pvars, rvars, nvars, enq_ret, wrote>>

\* one turn of the loop of send_all; the call returns when the loop ends
SendAllTurn ==
    /\ pc = "send_all"
    /\ \E out \in send_all_turn(sender) :
           /\ sender' = out.self
           /\ all_wrote' = IF IsSome(out.wrote)
                           THEN Append(all_wrote, Unwrap(out.wrote))
                           ELSE all_wrote
           /\ pc' = IF out.again THEN "send_all" ELSE "idle"
           /\ all_ret' = IF out.again THEN None ELSE Some(out.ret)
    /\ UNCHANGED <<qvars, pvars, rvars, receiver, wire, delivered, polled,
                   enqueued, queued, send_ret, op, enq_ret, wrote, all_from>>

NextDrain ==
    \/ EnqueueCall
    \/ SendOneCall
    \/ SendAllBegin
    \/ SendAllTurn

\* a Sender whose owner enqueues and drains the outgoing queue
SpecDrain == InitSend /\ [][NextDrain]_vars

\* the thread inside send_all keeps running its loop
SpecDrainFair == SpecDrain /\ WF_vars(SendAllTurn)

\* ------------------------------------------------------------------ claims

RECURSIVE SumSizes(_, _)
\* the sum of the size fields of the buffers with the given ids
SumSizes(stages, ids) ==
    IF ids = {} THEN 0
    ELSE LET id == CHOOSE x \in ids : TRUE
         IN stages[id].size + SumSizes(stages, ids \ {id})

Range(s) == {s[i] : i \in 1..Len(s)}

Restrict(f, S) == [x \in S |-> f[x]]

Bounded(q) == IsSome(q.max_size)

OverCapacity(q) == Bounded(q) /\ q.cur_size > Unwrap(q.max_size)

\* the fragment of the call that has just returned is stale for the queue as
\* it was before the call
StaleCall ==
    /\ IsSome(chunk')
    /\ IsSome(queue.last_released)
    /\ Unwrap(chunk').id <= Unwrap(queue.last_released)

\* C1: the ids of the CompleteMessages one queue returns are strictly
\* increasing: each is greater than every id returned before it.
C1_ReturnedIdsIncrease ==
    \A i, j \in 1..Len(returned) : i < j => returned[i] < returned[j]

C1_Witness ==
    /\ Len(returned) >= 2
    /\ IsSome(result)
    /\ queue.stages # <<>>

\* C5 (as claimed): inserting a fragment whose id is <= last_released returns
\* None and leaves last_released, the open buffers and cur_size as they were.
C5_StaleLeavesStateUnchanged ==
    [][StaleCall => (result' = None /\ queue' = queue)]_vars

\* C5 (amended): inserting a fragment whose id is <= last_released returns
\* None and leaves last_released and max_size as they were; the open buffers
\* and cur_size change only by the capacity eviction that opens the call: the
\* buffers left are the old ones without the evicted ids, untouched, cur_size
\* drops by the evicted sizes, and nothing is evicted unless cur_size exceeded
\* the bound when the call began.
C5_StaleOnlyPrunes ==
    [][StaleCall =>
        /\ result' = None
        /\ queue'.last_released = queue.last_released
        /\ queue'.max_size = queue.max_size
        /\ Range(evicted') \subseteq DOMAIN queue.stages
        /\ queue'.stages =
               Restrict(queue.stages, DOMAIN queue.stages \ Range(evicted'))
        /\ queue'.cur_size =
               queue.cur_size - SumSizes(queue.stages, Range(evicted'))
        /\ (~OverCapacity(queue) => queue' = queue)]_vars

C5_Witness ==
    /\ IsSome(chunk)
    /\ IsSome(queue.last_released)
    /\ Unwrap(chunk).id <= Unwrap(queue.last_released)
    /\ result = None
    /\ evicted # <<>>
    /\ queue.stages # <<>>

\* C6 (as claimed): with a capacity bound B, cur_size <= B in every state
\* between two insert_chunk calls.
C6_NeverOverBetweenCalls ==
    Bounded(queue) => queue.cur_size <= Unwrap(queue.max_size)

\* C6 (amended): with a capacity bound B, cur_size exceeds B between calls
\* only when the call that just returned stored its fragment in an open buffer
\* and returned None, and then by no more than that fragment's payload length;
\* the next call's opening eviction removes the excess (what is left after it
\* is at most B).
C6_OverOnlyByLastFragment ==
    [][/\ OverCapacity(queue') =>
            /\ IsSome(chunk')
            /\ result' = None
            /\ LET c == Unwrap(chunk') IN
               /\ c.id \in DOMAIN queue'.stages
               /\ c.this \in DOMAIN queue'.stages[c.id].pieces
               /\ queue'.stages[c.id].pieces[c.this] = c
               /\ queue'.cur_size - Len(c.bytes) <= Unwrap(queue'.max_size)
       /\ OverCapacity(queue) =>
            /\ evicted' # <<>>
            /\ queue.cur_size - SumSizes(queue.stages, Range(evicted'))
                   <= Unwrap(queue.max_size)]_vars

C6_Witness ==
    /\ OverCapacity(queue)
    /\ evicted # <<>>
    /\ Cardinality(DOMAIN queue.stages) >= 2

\* C7: under a capacity bound B the opening eviction removes open buffers in
\* ascending id order and stops as soon as cur_size <= B or no buffer is
\* left: the evicted ids are the shortest prefix of the id-sorted open buffers
\* whose removal brings cur_size to at most B; every other buffer is left
\* untouched, and eviction does not change last_released. Without a bound,
\* or at or under the bound, nothing is evicted.
C7_EvictsShortestOldestPrefix ==
    [][IsSome(chunk') =>
        LET open == DOMAIN queue.stages
            E == Range(evicted')
            n == Len(evicted')
            left(k) == queue.cur_size
                         - SumSizes(queue.stages, {evicted'[i] : i \in 1..k})
            after == prune(queue)
        IN  /\ E \subseteq open
            /\ \A i, j \in 1..n : i < j => evicted'[i] < evicted'[j]
            /\ \A e \in E : \A id \in open : id < e => id \in E
            /\ ~OverCapacity(queue) => n = 0
            /\ OverCapacity(queue) =>
                 /\ left(n) <= Unwrap(queue.max_size) \/ E = open
                 /\ \A k \in 0..(n - 1) : left(k) > Unwrap(queue.max_size)
            /\ after.stages = Restrict(queue.stages, open \ E)
            /\ after.cur_size = left(n)
            /\ after.last_released = queue.last_released
            /\ after.max_size = queue.max_size]_vars

C7_Witness ==
    /\ Len(evicted) >= 2
    /\ \E id \in DOMAIN queue.stages :
           /\ id > evicted[Len(evicted)]
           /\ id # Unwrap(chunk).id

\* the call that has just returned re-inserted the watched fragment identity
WatchedCall ==
    /\ IsSome(chunk')
    /\ IsSome(watch)
    /\ Unwrap(chunk').id = Unwrap(watch)[1]
    /\ Unwrap(chunk').this = Unwrap(watch)[2]

C9_PublishKeepsNewer ==
    [][/\ IsSome(result') =>
            LET N == Unwrap(result').id IN
            /\ queue'.last_released = Some(N)
            /\ \A id \in DOMAIN queue'.stages : id >= N
            /\ \A id \in DOMAIN queue.stages :
                   id > N => /\ id \in DOMAIN queue'.stages
                             /\ queue'.stages[id] = queue.stages[id]
       /\ StaleCall => result' = None]_vars

\* a buffer that lacks one piece completes when a fragment with a missing
\* index arrives, unless the queue is over capacity when it does
CanComplete(q, id) ==
    \A c \in Chunks :
        (/\ c.id = id
         /\ c.out_of # 1
         /\ c.this \notin DOMAIN q.stages[id].pieces
         /\ Cardinality(DOMAIN q.stages[id].pieces) + 1
                = q.stages[id].total_pieces
         /\ ~OverCapacity(q))
        => \A out \in insert_chunk(q, c) :
               IsSome(out.ret) /\ Unwrap(out.ret).id = id

\* C9 (amended): when insert_chunk publishes id N, last_released becomes N,
\* every open buffer with id < N is removed and later fragments for ids at or
\* below last_released return None; every open buffer with id > N that the
\* call's opening capacity eviction did not evict is left unchanged and can
\* still complete when its remaining fragments arrive. A buffer with id > N is
\* evicted only if cur_size exceeded the bound when the call began and every
\* buffer with a smaller id was evicted too.
C9_PublishKeepsUnevictedNewer ==
    [][/\ IsSome(result') =>
            LET N == Unwrap(result').id IN
            /\ queue'.last_released = Some(N)
            /\ \A id \in DOMAIN queue'.stages : id >= N
            /\ \A id \in DOMAIN queue.stages :
                   id > N =>
                     \/ /\ id \in DOMAIN queue'.stages
                        /\ queue'.stages[id] = queue.stages[id]
                        /\ CanComplete(queue', id)
                     \/ /\ OverCapacity(queue)
                        /\ id \in Range(evicted')
                        /\ id \notin DOMAIN queue'.stages
                        /\ \A o \in DOMAIN queue.stages :
                               o < id => o \in Range(evicted')
            /\ \A id \in DOMAIN queue'.stages :
                   id > N => id \in DOMAIN queue.stages
       /\ StaleCall => result' = None]_vars

C9_Witness ==
    /\ IsSome(result)
    /\ dropped # {}
    /\ \E id \in DOMAIN queue.stages : id > Unwrap(result).id
    /\ Unwrap(chunk).out_of # 1

RECURSIVE ByIndex(_, _)
\* the payloads of the fragments of s with indexes i, i+1, ..., Len(s),
\* concatenated in that order
ByIndex(s, i) ==
    IF i > Len(s) THEN <<>>
    ELSE LET c == CHOOSE x \in Range(s) : x.this = i
         IN c.bytes \o ByIndex(s, i + 1)

\* C2: the fragments 1..k of a message, inserted into a fresh unbounded queue
\* in any order, give exactly one completion, on the last insertion (every
\* earlier insertion returns None), and its payload is the concatenation of
\* the fragment payloads in ascending index order.
C2_AnyOrderMergesByIndex ==
    feed # <<>> =>
        /\ fed < Len(feed) => (result = None /\ returned = <<>>)
        /\ fed = Len(feed) =>
             /\ result = Some(CompleteMessage(feed[1].id, ByIndex(feed, 1)))
             /\ returned = <<feed[1].id>>

\* the number of slices of at most `size` bytes a payload of n bytes has
SliceCount(n, size) == (n + size - 1) \div size

\* slice i of the payload
Slice(message, size, i) ==
    SubSeq(message, (i - 1) * size + 1,
           IF i * size < Len(message) THEN i * size ELSE Len(message))

\* this step is a successful enqueue call
Enqueued == Len(enqueued') = Len(enqueued) + 1

\* the entries the call appended
Appended ==
    SubSeq(sender'.out_queue, Len(sender.out_queue) + 1,
           Len(sender'.out_queue))

\* C3: one payload enqueued for the Receiver, its fragments queued and every
\* queued fragment delivered (any order, duplicates allowed, none lost) to the
\* fresh queue of that peer: the Receiver has returned exactly one
\* CompleteMessage, with that id and that payload.
C3_RoundTrip ==
    (/\ Len(enqueued) = 1
     /\ sender.last_id = 1
     /\ enqueued[1].addrs = "rx"
     /\ queued # {}
     /\ sender.out_queue = <<>>
     /\ queued \subseteq delivered)
    => polled = << <<TxAddr, CompleteMessage(1, enqueued[1].message)>> >>

\* C4: every fragment enqueue queues carries its 1-based slice position as
\* index and the number of slices of the payload as total, so that
\* 1 <= index <= total and each replica carries exactly the indexes 1..total.
C4_TotalIsSliceCount ==
    [][Enqueued =>
        LET e == enqueued'[Len(enqueued')]
            size == sender.datagram_length - MSG_PADDING
            n == SliceCount(Len(e.message), size)
            new == Appended
        IN  /\ \A k \in 1..Len(new) :
                   LET c == new[k].chunk IN
                   /\ c.this = ((k - 1) % n) + 1
                   /\ c.out_of = n
                   /\ 1 <= c.this /\ c.this <= c.out_of
                   /\ Len(c.bytes) <= size
            /\ \A r \in 1..sender.replication :
                   (n >= 1 /\ r * n <= Len(new)) =>
                       {new[(r - 1) * n + i].chunk.this : i \in 1..n}
                           = 1..new[r * n].chunk.out_of]_vars

\* C10: enqueue appends exactly R copies of the slice set to the back of the
\* outgoing queue, each copy in ascending slice order, replica after replica,
\* all with the same id, indexes, total and destination; the entries already
\* queued keep their positions.
C10_AppendsReplicas ==
    [][Enqueued =>
        LET e == enqueued'[Len(enqueued')]
            size == sender.datagram_length - MSG_PADDING
            n == SliceCount(Len(e.message), size)
            R == sender.replication
            new == Appended
        IN  /\ Len(sender'.out_queue) = Len(sender.out_queue) + R * n
            /\ SubSeq(sender'.out_queue, 1, Len(sender.out_queue))
                   = sender.out_queue
            /\ Len(new) = R * n
            /\ \A r \in 1..R : \A i \in 1..n :
                   LET x == new[(r - 1) * n + i] IN
                   /\ x.chunk.id = e.id
                   /\ x.chunk.this = i
                   /\ x.chunk.bytes = Slice(e.message, size, i)
                   /\ x.chunk.out_of = new[1].chunk.out_of
                   /\ x.addrs = <<e.addrs>>]_vars

C10_Witness ==
    /\ Len(enqueued) = 2
    /\ sender.replication = 2
    /\ Len(sender.out_queue) >= 5
    /\ sender.out_queue[1].chunk.id = 1
    /\ LET n == Len(sender.out_queue) IN
       /\ \A k \in (n - 3)..n : sender.out_queue[k].chunk.id = 2
       /\ sender.out_queue[n - 3].chunk.this = 1
       /\ sender.out_queue[n - 2].chunk.this = 2
       /\ sender.out_queue[n - 1].chunk.this = 1
       /\ sender.out_queue[n].chunk.this = 2

\* this step is a call of send_one
SendOneStep == op' = Some("send_one") /\ pc = "idle" /\ pc' = "idle"

\* C11 (as claimed): send_one on a non-empty outgoing queue removes exactly
\* the front entry, writes exactly one datagram carrying that fragment to
\* that entry's destination and returns true iff entries remain queued
\* afterwards; on an empty queue it writes nothing, leaves the queue empty
\* and returns false.
C11_SendOneWritesFront ==
    [][SendOneStep =>
        IF sender.out_queue # <<>>
        THEN /\ sender'.out_queue = Tail(sender.out_queue)
             /\ wrote' = Some(Datagram(Head(sender.out_queue)))
             /\ send_ret' = Some(<<"Ok", sender'.out_queue # <<>>>>)
        ELSE /\ wrote' = None
             /\ sender'.out_queue = <<>>
             /\ send_ret' = Some(<<"Ok", FALSE>>)]_vars

\* C11 (amended): send_one on a non-empty outgoing queue removes exactly the
\* front entry and nothing else of the Sender changes; it either writes
\* exactly one datagram carrying that fragment to that entry's destination
\* and returns true iff entries remain queued afterwards, or fails
\* (serialization over the datagram bound, or the transport write), and
\* then it has written nothing, returns the error and the removed entry is
\* not put back. On an empty queue it writes nothing, leaves the queue empty
\* and returns false.
C11_SendOneWritesFrontOrFails ==
    [][SendOneStep =>
        IF sender.out_queue # <<>>
        THEN /\ sender' = [sender EXCEPT !.out_queue = Tail(@)]
             /\ \/ /\ wrote' = Some(Datagram(Head(sender.out_queue)))
                   /\ send_ret' = Some(<<"Ok", sender'.out_queue # <<>>>>)
                \/ /\ wrote' = None
                   /\ send_ret' = Some(<<"Err">>)
        ELSE /\ wrote' = None
             /\ sender' = sender
             /\ send_ret' = Some(<<"Ok", FALSE>>)]_vars

\* send_one has just written the front entry of a queue of two different
\* entries, and the other one is still queued
C11_Witness ==
    /\ op = Some("send_one")
    /\ send_ret = Some(<<"Ok", TRUE>>)
    /\ IsSome(wrote)
    /\ Len(sender.out_queue) >= 1
    /\ Unwrap(wrote).chunk # sender.out_queue[1].chunk

\* this step is the turn of the loop on which send_all returns
SendAllReturns == pc = "send_all" /\ pc' = "idle"

\* the datagrams that sending the entries of q, each once and in order, writes
Datagrams(q) == [i \in 1..Len(q) |-> Datagram(q[i])]

\* C12: send_all terminates for every finite outgoing queue. If no send_one
\* fails it returns Ok with the queue empty and every entry that was queued
\* written exactly once, in FIFO order; if a send_one fails it stops at that
\* first failure and returns the error: the entries before the failing one
\* were written once each, in order, and those behind it are still queued
\* and not written. Every turn of the loop that does not end it shortens the
\* queue by one entry, and a call that has begun returns.
C12_SendAllDrainsOrStops ==
    /\ [][SendAllReturns =>
            \/ /\ all_ret' = Some("Ok")
               /\ sender'.out_queue = <<>>
               /\ all_wrote' = Datagrams(all_from)
            \/ /\ all_ret' = Some("Err")
               /\ \E k \in 1..Len(all_from) :
                      /\ all_wrote' = Datagrams(SubSeq(all_from, 1, k - 1))
                      /\ sender'.out_queue =
                             SubSeq(all_from, k + 1, Len(all_from))]_vars
    /\ [][(pc = "send_all" /\ pc' = "send_all") =>
            /\ all_ret' = None
            /\ Len(sender'.out_queue) < Len(sender.out_queue)
            /\ Len(all_wrote') = Len(all_wrote) + 1
            /\ all_wrote' = Datagrams(SubSeq(all_from, 1, Len(all_wrote')))
            /\ sender'.out_queue =
                   SubSeq(all_from, Len(all_wrote') + 1, Len(all_from))]_vars
    /\ (pc = "send_all") ~> (pc = "idle")

\* send_all stopped at a failure after writing something, with entries left
C12_Witness ==
    /\ pc = "idle"
    /\ all_ret = Some("Err")
    /\ Len(all_wrote) >= 1
    /\ sender.out_queue # <<>>
    /\ Len(all_from) = Len(all_wrote) + 1 + Len(sender.out_queue)

\* this step is a call of enqueue
EnqueueStep == op' = Some("enqueue") /\ pc = "idle" /\ pc' = "idle"

EnqueueFails == EnqueueStep /\ enq_ret' = Some("Err")

\* C20 (as claimed): when enqueue fails with an address-resolution error the
\* Sender is left exactly as before the call: nothing is appended to
\* out_queue and last_id is not advanced, so the ids of the successfully
\* enqueued messages are the consecutive values 1, 2, 3, ...
C20_FailedEnqueueChangesNothing ==
    [][/\ EnqueueFails => sender' = sender
       /\ EnqueueStep =>
            \A k \in 1..Len(enqueued') : enqueued'[k].id = k]_vars

\* C20 (amended): when enqueue fails with an address-resolution error
\* nothing is appended to out_queue and no message is recorded as enqueued,
\* and the only change to the Sender is that last_id has advanced by one:
\* the id of the failed call is consumed. The ids of the successfully
\* enqueued messages are strictly increasing, the k-th one being at least k,
\* and each is the value last_id reached in its call.
C20_FailedEnqueueConsumesId ==
    [][/\ EnqueueFails =>
            /\ sender' = [sender EXCEPT !.last_id = @ + 1]
            /\ enqueued' = enqueued
       /\ EnqueueStep =>
            /\ \A k \in 1..Len(enqueued') : enqueued'[k].id >= k
            /\ \A i, j \in 1..Len(enqueued') :
                   i < j => enqueued'[i].id < enqueued'[j].id
            /\ enq_ret' = Some("Ok") =>
                   enqueued'[Len(enqueued')].id = sender.last_id + 1]_vars

\* a call has failed while fragments of an earlier message are queued
C20_Witness ==
    /\ op = Some("enqueue")
    /\ enq_ret = Some("Err")
    /\ sender.last_id = 2
    /\ Len(enqueued) = 1
    /\ sender.out_queue # <<>>

\* the queue the Receiver holds for address a, a fresh one if it has none
QueueOf(r, a) == IF a \in DOMAIN r.queue THEN r.queue[a] ELSE MsgQueue_new(None)

\* C14: the Receiver keeps one independent MsgQueue per source address. A
\* datagram read from address A is inserted only into A's queue, created
\* fresh on first sight, and the queue of every other address B is left as
\* it was; the pass returns (A, msg) exactly when that insertion returns the
\* completion msg, and otherwise poll reads the next datagram. (A datagram
\* that does not decode is inserted nowhere and ends poll with the error.)
C14_OneQueuePerSource ==
    [][IsSome(rx_from') =>
        LET A == Unwrap(rx_from') IN
        /\ \A B \in DOMAIN receiver.queue \ {A} :
               /\ B \in DOMAIN receiver'.queue
               /\ receiver'.queue[B] = receiver.queue[B]
        /\ DOMAIN receiver'.queue \subseteq DOMAIN receiver.queue \cup {A}
        /\ receiver'.datagram_length = receiver.datagram_length
        /\ IF IsSome(chunk')
           THEN /\ A \in DOMAIN receiver'.queue
                /\ \E out \in insert_chunk(QueueOf(receiver, A),
                                            Unwrap(chunk')) :
                       /\ receiver'.queue[A] = out.self
                       /\ poll_ret' = Some(IF IsSome(out.ret)
                                           THEN <<"Ok", A, Unwrap(out.ret)>>
                                           ELSE <<"Loop">>)
           ELSE /\ receiver' = receiver
                /\ poll_ret' = Some(<<"Err">>)]_vars

\* a message from b has just completed while a message from a with the same
\* id is still being assembled
C14_Witness ==
    /\ rx_from = Some("b")
    /\ Unwrap(poll_ret)[1] = "Ok"
    /\ Unwrap(chunk).out_of # 1
    /\ "a" \in DOMAIN receiver.queue
    /\ Unwrap(chunk).id \in DOMAIN receiver.queue["a"].stages
    /\ receiver.queue["a"].last_released # receiver.queue["b"].last_released

RECURSIVE SumLens(_, _)
\* the sum of the payload lengths of the fragments stored under the indexes
SumLens(pieces, indexes) ==
    IF indexes = {} THEN 0
    ELSE LET i == CHOOSE x \in indexes : TRUE
         IN Len(pieces[i].bytes) + SumLens(pieces, indexes \ {i})

\* C15: in every reachable state of a MsgQueue, with or without a capacity
\* bound, cur_size is the sum of the size fields of the open buffers, each
\* buffer's size is the sum of the payload lengths of the fragments it
\* stores, and cur_size has not gone below zero.
C15_SizesAddUp ==
    /\ queue.cur_size = SumSizes(queue.stages, DOMAIN queue.stages)
    /\ \A id \in DOMAIN queue.stages :
           queue.stages[id].size =
               SumLens(queue.stages[id].pieces,
                       DOMAIN queue.stages[id].pieces)
    /\ queue.cur_size >= 0

\* two open buffers, one of them holding two fragments with payload
C15_Witness ==
    /\ Cardinality(DOMAIN queue.stages) >= 2
    /\ \E id \in DOMAIN queue.stages :
           /\ Cardinality(DOMAIN queue.stages[id].pieces) >= 2
           /\ queue.stages[id].size >= 2
    /\ queue.cur_size >= 3

\* C16: after every insert_chunk call, whatever the fragments inserted so
\* far (a fragment with total = 1 for an id that has an open buffer
\* included), no open buffer has an id <= last_released.
C16_NoBufferAtOrBelowReleased ==
    IsSome(queue.last_released) =>
        \A id \in DOMAIN queue.stages : id > Unwrap(queue.last_released)

\* the fragment of the call that has just returned had its (id, index)
\* stored in an open buffer when the call began
DupCall ==
    /\ IsSome(chunk')
    /\ Unwrap(chunk').id \in DOMAIN queue.stages
    /\ Unwrap(chunk').this
           \in DOMAIN queue.stages[Unwrap(chunk').id].pieces

\* C17 (as claimed): inserting a fragment whose (id, index) is already
\* stored in an open buffer is a no-op: add_chunk returns 0, the stored
\* fragment and the buffer's size are not replaced or changed, cur_size is
\* unchanged, the buffer does not become ready and insert_chunk returns
\* None, so that inserting the fragment again changes nothing.
C17_DuplicateIsNoOp ==
    [][DupCall =>
        LET c == Unwrap(chunk') IN
        /\ add_chunk(queue.stages[c.id], c)
               = [stage |-> queue.stages[c.id], added |-> 0]
        /\ result' = None
        /\ queue' = queue]_vars

\* C17 (amended): for a fragment whose (id, index) is already stored in an
\* open buffer, add_chunk on that buffer returns 0 and leaves the stored
\* fragment and the buffer's size as they are. insert_chunk of such a
\* fragment first runs the capacity eviction that opens every call; then
\*  - if the fragment is stale, or declares a total other than 1 and its
\*    buffer was not evicted, it returns None and the queue is what the
\*    eviction left (the queue itself when it was not over its bound);
\*  - if its buffer was evicted (and it is not stale and its total is not 1)
\*    it returns None and the fragment opens a new buffer of its own;
\*  - if it declares total = 1 and is not stale it is published at once.
C17_DuplicateOnlyPrunes ==
    [][DupCall =>
        LET c == Unwrap(chunk')
            E == Range(evicted')
            left == queue.cur_size - SumSizes(queue.stages, E)
            stale == /\ IsSome(queue.last_released)
                     /\ c.id <= Unwrap(queue.last_released)
        IN  /\ add_chunk(queue.stages[c.id], c)
                   = [stage |-> queue.stages[c.id], added |-> 0]
            /\ E \subseteq DOMAIN queue.stages
            /\ ~OverCapacity(queue) => E = {}
            /\ (stale \/ (c.out_of # 1 /\ c.id \notin E)) =>
                   /\ result' = None
                   /\ queue'.stages =
                          Restrict(queue.stages, DOMAIN queue.stages \ E)
                   /\ queue'.cur_size = left
                   /\ queue'.last_released = queue.last_released
                   /\ queue'.max_size = queue.max_size
            /\ (~stale /\ c.out_of # 1 /\ c.id \in E) =>
                   /\ result' = None
                   /\ DOMAIN queue'.stages =
                          (DOMAIN queue.stages \ E) \cup {c.id}
                   /\ DOMAIN queue'.stages[c.id].pieces = {c.this}
                   /\ queue'.stages[c.id].pieces[c.this] = c
                   /\ queue'.stages[c.id].size = Len(c.bytes)
                   /\ queue'.cur_size = left + Len(c.bytes)
                   /\ queue'.last_released = queue.last_released
            /\ (~stale /\ c.out_of = 1) =>
                   /\ result' = Some(CompleteMessage(c.id, c.bytes))
                   /\ queue'.last_released = Some(c.id)]_vars

\* a call has just returned None for a fragment whose index is held, with a
\* different payload, by a buffer that holds two fragments
C17_Witness ==
    /\ IsSome(chunk)
    /\ result = None
    /\ LET c == Unwrap(chunk) IN
       /\ c.id \in DOMAIN queue.stages
       /\ c.this \in DOMAIN queue.stages[c.id].pieces
       /\ queue.stages[c.id].pieces[c.this].bytes # c.bytes
       /\ Cardinality(DOMAIN queue.stages[c.id].pieces) = 2

\* C18: with a capacity bound B, right after the eviction that opens an
\* insert_chunk call cur_size <= B (the evicted buffers' sizes taken off),
\* and so when the call returns cur_size <= B + the payload length of the
\* fragment just inserted: cur_size never grows by more than that fragment
\* over what the eviction left.
C18_PrunedThenOneFragmentOver ==
    [][(IsSome(chunk') /\ Bounded(queue)) =>
        LET B == Unwrap(queue.max_size)
            pruned == queue.cur_size
                        - SumSizes(queue.stages, Range(evicted'))
        IN  /\ Range(evicted') \subseteq DOMAIN queue.stages
            /\ pruned <= B
            /\ queue'.max_size = queue.max_size
            /\ queue'.cur_size <= pruned + Len(Unwrap(chunk').bytes)
            /\ queue'.cur_size <= B + Len(Unwrap(chunk').bytes)]_vars

\* a call on a queue over its bound has evicted two buffers and stored its
\* fragment, which takes the queue to the bound plus that fragment's payload
C18_Witness ==
    /\ Bounded(queue)
    /\ Len(evicted) >= 2
    /\ IsSome(chunk)
    /\ result = None
    /\ queue.cur_size = Unwrap(queue.max_size) + Len(Unwrap(chunk).bytes)
    /\ Len(Unwrap(chunk).bytes) >= 1

\* C19: insert_chunk returns a CompleteMessage for a fragment of a
\* multi-fragment message only when, with that fragment, a fragment for
\* every index 1..total_pieces of its id has been received since the buffer
\* was opened, and no other: the message is built from exactly total_pieces
\* fragments with the indexes 1..total_pieces, whatever fragments arrive
\* (indexes outside 1..total and differing declared totals included).
C19_CompleteHasEveryIndex ==
    [][(IsSome(result') /\ Unwrap(chunk').out_of # 1) =>
        LET c == Unwrap(chunk') IN
        /\ c.id \in DOMAIN queue.stages
        /\ DOMAIN queue.stages[c.id].pieces \cup {c.this}
               = 1..queue.stages[c.id].total_pieces]_vars

====
